---- MODULE Spec2Model ----
(***************************************************************************)
(* Model of server/services/shipments.py: the service layer that forwards  *)
(* list / get / delete / update of the shipment resource to the ERP over   *)
(* HTTP and maps the ERP's answer to a return value or an exception.       *)
(*                                                                         *)
(* One invocation of a handler is one action.  The handler itself is an    *)
(* operator of its arguments and of the ERP's answer to the request it     *)
(* issues (`reply`), giving the requests put on the wire, the status       *)
(* comparisons evaluated and the outcome (return value or exception).      *)
(***************************************************************************)
EXTENDS Integers, Sequences, FiniteSets, TLC

VARIABLES
    call,       \* the last invocation: operation and arguments
    requests,   \* the HTTP requests that invocation issued, in order
    checks,     \* the status codes its `status_code ==` tests compared with
    erp,        \* the ERP's answer to its request
    outcome,    \* how it ended: a return value or a raised exception
    calls,      \* invocations so far in this process
    sent,       \* HTTP requests issued so far in this process
    first,      \* HistorySpec: the record of the process's first invocation
    history     \* HistorySpec: the tokens of the invocations before the last

vars == <<call, requests, checks, erp, outcome, calls, sent, first, history>>

\* Invocations per process run.
MaxCalls == 3

(***************************************************************************)
(* Python values                                                           *)
(***************************************************************************)
PyNone == [t |-> "NoneType"]
PyStr(s) == [t |-> "str", v |-> s]
PyDict(f) == [t |-> "dict", v |-> f]
PyList == [t |-> "list"]

\* The result of evaluating an expression: a value, or an exception raised.
Value(v) == [raised |-> "none", value |-> v]
Raised(type) == [raised |-> type]

(***************************************************************************)
(* Inputs                                                                  *)
(***************************************************************************)
\* Config.ERP, the base URL of the ERP (set in server/config.py).
ERP == "http://erp.example/api/v1/"

Tokens == {"tokenA", "tokenB"}
RetailerIds == {PyNone, PyStr("r1"), PyStr("r2")}
StatusArgs == {PyNone, PyStr("delivered"), PyStr("")}
ShipmentIds == {"1", "2"}
Shipments == {"{\"status\": \"DELIVERED\"}"}

\* Response bodies (response.text).
BodyError == "{\"error\": {\"message\": \"Authorization Required\"}}"
BodyErrorNoMessage == "{\"error\": {}}"
BodyErrorString == "{\"error\": \"denied\"}"
BodyShipment == "{\"id\": \"1\", \"status\": \"SHIPPED\"}"
BodyShipmentSpaced == "  {\"id\": \"1\", \"status\": \"SHIPPED\"}\n"
BodyList == "[]"
BodyText == "Unauthorized"
BodyEmpty == ""

Bodies == {BodyError, BodyErrorNoMessage, BodyErrorString, BodyShipment,
           BodyShipmentSpaced, BodyList, BodyText, BodyEmpty}
StatusCodes == {200, 204, 401, 404, 500}

\* What requests.request can do: raise, or give a response.
ErpFailures == {[kind |-> "error", type |-> "ConnectionError", str |-> "connection refused"],
                [kind |-> "error", type |-> "Timeout", str |-> "read timed out"]}
ErpResponses == [kind : {"response"}, status_code : StatusCodes, text : Bodies]
ErpAnswers == ErpFailures \cup ErpResponses

(***************************************************************************)
(* json.loads and dict.get, on the bodies above                            *)
(***************************************************************************)
ShipmentDoc == PyDict([k \in {"id", "status"} |-> IF k = "id" THEN PyStr("1") ELSE PyStr("SHIPPED")])

json_loads(text) ==
    CASE text = BodyError ->
            Value(PyDict([k \in {"error"} |->
                    PyDict([m \in {"message"} |-> PyStr("Authorization Required")])]))
      [] text = BodyErrorNoMessage ->
            Value(PyDict([k \in {"error"} |-> PyDict(<<>>)]))
      [] text = BodyErrorString ->
            Value(PyDict([k \in {"error"} |-> PyStr("denied")]))
      [] text = BodyShipment -> Value(ShipmentDoc)
      [] text = BodyShipmentSpaced -> Value(ShipmentDoc)
      [] text = BodyList -> Value(PyList)
      [] OTHER -> Raised("ValueError")

\* obj.get(key)
py_get(obj, key) ==
    IF obj.t = "dict"
    THEN Value(IF key \in DOMAIN obj.v THEN obj.v[key] ELSE PyNone)
    ELSE Raised("AttributeError")

\* json.loads(response.text).get('error').get('message')
error_message(text) ==
    LET doc == json_loads(text) IN
    IF doc.raised # "none" THEN doc
    ELSE LET err == py_get(doc.value, "error") IN
         IF err.raised # "none" THEN err
         ELSE py_get(err.value, "message")

(***************************************************************************)
(* Outcomes                                                                *)
(***************************************************************************)
Return(v) == [kind |-> "return", value |-> v]
Raise(type, message, details) ==
    [kind |-> "raise",
     exc |-> [type |-> type, message |-> message, internal_details |-> details]]
\* An exception of the interpreter or the standard library, not caught.
Propagate(type) == [kind |-> "raise", exc |-> [type |-> type]]

\* raise X(message, internal_details=<expr>): the argument is evaluated first.
raise_with_details(type, message, details) ==
    IF details.raised # "none" THEN Propagate(details.raised)
    ELSE Raise(type, message, details.value)

(***************************************************************************)
(* Request building and the HTTP call                                      *)
(***************************************************************************)
\* Variant: the filter is added `if status:` rather than `if status is not None:`.
StatusQueryTruthy(status) ==
    IF status.t # "NoneType" /\ status.v # ""
    THEN "" \o ("filter[where][status]=" \o status.v)
    ELSE ""

\* status_query: "Add status filter if present".
StatusQuery(status) ==
    IF status.t # "NoneType"
    THEN "" \o ("filter[where][status]=" \o status.v)
    ELSE ""

\* Variant: the token is kept at module level by the first call that runs and
\* later calls send that one.
HeadersCached(token) ==
    [cache_control |-> "no-cache",
     Authorization |-> IF call.op = "none" THEN token
                       ELSE requests[1].headers.Authorization]

\* headers = {'cache-control': "no-cache", 'Authorization': token}
Headers(token) == [cache_control |-> "no-cache", Authorization |-> token]

Request(method, url, headers, data) ==
    [method |-> method, url |-> url, headers |-> headers, data |-> data]

\* Variant: a failed request is sent a second time.
IssueWithRetry(req, reply) == IF reply.kind = "error" THEN <<req, req>> ELSE <<req>>

\* The try block: requests.request(...) is called once, whatever it does.
Issue(req, reply) == <<req>>

\* Variant: the transport's exception reaches the caller as it is.
TransportFailureUncaught(message, reply) == Propagate(reply.type)

\* except Exception as e: raise APIException(message, internal_details=str(e))
TransportFailure(message, reply) == Raise("APIException", message, PyStr(reply.str))

\* Variant: the body is stripped of surrounding whitespace before it is returned.
ResponseTextStripped(reply) ==
    IF reply.text = BodyShipmentSpaced THEN BodyShipment ELSE reply.text

\* response.text
ResponseText(reply) == reply.text

Result(reqs, compared, out) == [requests |-> reqs, checks |-> compared, outcome |-> out]

(***************************************************************************)
(* Services                                                                *)
(***************************************************************************)
\* Variant: get_shipments maps 404 as the other three services do.
get_shipments_with_404(token, retailer_id, status, reply) ==
    LET status_query == StatusQuery(status)
        url == ERP \o "Shipments?" \o status_query
        headers == Headers(token)
        req == Request("GET", url, headers, PyNone)
    IN  IF reply.kind = "error"
        THEN Result(Issue(req, reply), <<>>,
                    TransportFailure("ERP threw error retrieving shipments", reply))
        ELSE IF reply.status_code = 401
        THEN Result(Issue(req, reply), <<401>>,
                    raise_with_details("AuthenticationException", "ERP access denied",
                                       error_message(reply.text)))
        ELSE IF reply.status_code = 404
        THEN Result(Issue(req, reply), <<401, 404>>,
                    raise_with_details("ResourceDoesNotExistException", "Shipment does not exist",
                                       error_message(reply.text)))
        ELSE Result(Issue(req, reply), <<401, 404>>, Return(PyStr(ResponseText(reply))))

get_shipments(token, retailer_id, status, reply) ==
    LET status_query == StatusQuery(status)
        url == ERP \o "Shipments?" \o status_query
        headers == Headers(token)
        req == Request("GET", url, headers, PyNone)
    IN  IF reply.kind = "error"
        THEN Result(Issue(req, reply), <<>>,
                    TransportFailure("ERP threw error retrieving shipments", reply))
        ELSE IF reply.status_code = 401
        THEN Result(Issue(req, reply), <<401>>,
                    raise_with_details("AuthenticationException", "ERP access denied",
                                       error_message(reply.text)))
        ELSE Result(Issue(req, reply), <<401>>, Return(PyStr(ResponseText(reply))))

get_shipment(token, shipment_id, reply) ==
    LET url == ERP \o "Shipments/" \o shipment_id
        headers == Headers(token)
        req == Request("GET", url, headers, PyNone)
    IN  IF reply.kind = "error"
        THEN Result(Issue(req, reply), <<>>,
                    TransportFailure("ERP threw error retrieving shipment", reply))
        ELSE IF reply.status_code = 401
        THEN Result(Issue(req, reply), <<401>>,
                    raise_with_details("AuthenticationException", "ERP access denied",
                                       error_message(reply.text)))
        ELSE IF reply.status_code = 404
        THEN Result(Issue(req, reply), <<401, 404>>,
                    raise_with_details("ResourceDoesNotExistException", "Shipment does not exist",
                                       error_message(reply.text)))
        ELSE Result(Issue(req, reply), <<401, 404>>, Return(PyStr(ResponseText(reply))))

delete_shipment(token, shipment_id, reply) ==
    LET url == ERP \o "Shipments/" \o shipment_id
        headers == Headers(token)
        req == Request("DELETE", url, headers, PyNone)
    IN  IF reply.kind = "error"
        THEN Result(Issue(req, reply), <<>>,
                    TransportFailure("ERP threw error deleting shipment", reply))
        ELSE IF reply.status_code = 401
        THEN Result(Issue(req, reply), <<401>>,
                    raise_with_details("AuthenticationException", "ERP access denied",
                                       error_message(reply.text)))
        ELSE IF reply.status_code = 404
        THEN Result(Issue(req, reply), <<401, 404>>,
                    raise_with_details("ResourceDoesNotExistException", "Shipment does not exist",
                                       error_message(reply.text)))
        ELSE Result(Issue(req, reply), <<401, 404>>, Return(PyNone))

update_shipment(token, shipment_id, shipment, reply) ==
    LET url == ERP \o "Shipments/" \o shipment_id
        headers == Headers(token)
        req == Request("PUT", url, headers, PyStr(shipment))
    IN  IF reply.kind = "error"
        THEN Result(Issue(req, reply), <<>>,
                    TransportFailure("ERP threw error updating shipment", reply))
        ELSE IF reply.status_code = 401
        THEN Result(Issue(req, reply), <<401>>,
                    raise_with_details("AuthenticationException", "ERP access denied",
                                       error_message(reply.text)))
        ELSE IF reply.status_code = 404
        THEN Result(Issue(req, reply), <<401, 404>>,
                    raise_with_details("ResourceDoesNotExistException", "Shipment does not exist",
                                       error_message(reply.text)))
        ELSE Result(Issue(req, reply), <<401, 404>>, Return(PyStr(ResponseText(reply))))

(***************************************************************************)
(* The process: a caller invoking the services one after the other         *)
(***************************************************************************)
NoCall == [op |-> "none"]
NoAnswer == [kind |-> "none"]
NoOutcome == [kind |-> "none"]
NoRecord == [call |-> NoCall]

Init ==
    /\ call = NoCall
    /\ requests = <<>>
    /\ checks = <<>>
    /\ erp = NoAnswer
    /\ outcome = NoOutcome
    /\ calls = 0
    /\ sent = 0
    /\ first = NoRecord
    /\ history = <<>>

\* One invocation `c`, answered by `reply`, with the handler's result `res`.
\* `track` keeps the observations HistorySpec compares.
Invoke(c, reply, res, track) ==
    /\ call' = c
    /\ requests' = res.requests
    /\ checks' = res.checks
    /\ erp' = reply
    /\ outcome' = res.outcome
    /\ calls' = calls + 1
    /\ sent' = sent + Len(res.requests)
    /\ first' = IF track /\ calls = 0
                THEN [call |-> c, erp |-> reply, requests |-> res.requests,
                      outcome |-> res.outcome]
                ELSE first
    /\ history' = IF track /\ calls > 0 THEN Append(history, call.token) ELSE history

GetShipments(T, R, S, A, track) ==
    \E token \in T, retailer_id \in R, status \in S, reply \in A :
        /\ calls < MaxCalls
        /\ Invoke([op |-> "get_shipments", token |-> token, retailer_id |-> retailer_id,
                status |-> status],
               reply, get_shipments(token, retailer_id, status, reply), track)

GetShipment(T, I, A, track) ==
    \E token \in T, shipment_id \in I, reply \in A :
        /\ calls < MaxCalls
        /\ Invoke([op |-> "get_shipment", token |-> token, shipment_id |-> shipment_id],
               reply, get_shipment(token, shipment_id, reply), track)

DeleteShipment(T, I, A, track) ==
    \E token \in T, shipment_id \in I, reply \in A :
        /\ calls < MaxCalls
        /\ Invoke([op |-> "delete_shipment", token |-> token, shipment_id |-> shipment_id],
               reply, delete_shipment(token, shipment_id, reply), track)

UpdateShipment(T, I, P, A, track) ==
    \E token \in T, shipment_id \in I, shipment \in P, reply \in A :
        /\ calls < MaxCalls
        /\ Invoke([op |-> "update_shipment", token |-> token, shipment_id |-> shipment_id,
                shipment |-> shipment],
               reply, update_shipment(token, shipment_id, shipment, reply), track)

Next ==
    \/ GetShipments(Tokens, RetailerIds, StatusArgs, ErpAnswers, FALSE)
    \/ GetShipment(Tokens, ShipmentIds, ErpAnswers, FALSE)
    \/ DeleteShipment(Tokens, ShipmentIds, ErpAnswers, FALSE)
    \/ UpdateShipment(Tokens, ShipmentIds, Shipments, ErpAnswers, FALSE)

Spec == Init /\ [][Next]_vars

(***************************************************************************)
(* HistorySpec: the same services, called from fewer inputs, with the      *)
(* process's first invocation and the tokens of the earlier invocations    *)
(* kept beside the last one so that invocations with different pasts can   *)
(* be compared.                                                            *)
(***************************************************************************)
HistoryStatusArgs == {PyNone, PyStr("delivered")}
HistoryShipmentIds == {"1"}
HistoryAnswers ==
    {[kind |-> "error", type |-> "ConnectionError", str |-> "connection refused"],
     [kind |-> "response", status_code |-> 200, text |-> BodyShipment],
     [kind |-> "response", status_code |-> 401, text |-> BodyError],
     [kind |-> "response", status_code |-> 401, text |-> BodyText],
     [kind |-> "response", status_code |-> 404, text |-> BodyError]}

HistoryNext ==
    \/ GetShipments(Tokens, {PyNone}, HistoryStatusArgs, HistoryAnswers, TRUE)
    \/ GetShipment(Tokens, HistoryShipmentIds, HistoryAnswers, TRUE)
    \/ DeleteShipment(Tokens, HistoryShipmentIds, HistoryAnswers, TRUE)
    \/ UpdateShipment(Tokens, HistoryShipmentIds, Shipments, HistoryAnswers, TRUE)

HistorySpec == Init /\ [][HistoryNext]_vars

(***************************************************************************)
(* Properties                                                              *)
(***************************************************************************)
Invoked == calls > 0
Answered == Invoked /\ erp.kind = "response"
ById == call.op \in {"get_shipment", "delete_shipment", "update_shipment"}
RaisedType(type) == outcome.kind = "raise" /\ outcome.exc.type = type

\* C1: whenever the ERP answers 401, whatever the body, the operation raises
\* AuthenticationException.
C1_Status401RaisesAuthentication ==
    (Answered /\ erp.status_code = 401) => RaisedType("AuthenticationException")

\* C2: whenever the ERP answers 404 to get_shipment, delete_shipment or
\* update_shipment, whatever the body, the operation raises
\* ResourceDoesNotExistException.
C2_Status404RaisesNotFound ==
    (Answered /\ ById /\ erp.status_code = 404)
        => RaisedType("ResourceDoesNotExistException")

\* C3: when the request itself fails, the operation raises APIException (so
\* neither of the other two, and no value is returned) and no status code is
\* compared.
C3_TransportFailureRaisesAPIException ==
    (Invoked /\ erp.kind = "error")
        => /\ RaisedType("APIException")
           /\ outcome.exc.internal_details = PyStr(erp.str)
           /\ checks = <<>>

C3_Witness ==
    /\ Invoked /\ erp.kind = "error" /\ call.op = "delete_shipment"
    /\ RaisedType("APIException")

\* C4: every invocation ends with a return or with one of the three exceptions
\* of the service layer.
C4_OnlyThreeErrorKinds ==
    Invoked =>
        \/ outcome.kind = "return"
        \/ /\ outcome.kind = "raise"
           /\ outcome.exc.type \in {"AuthenticationException",
                                    "ResourceDoesNotExistException", "APIException"}

\* C5: on a success status get_shipments, get_shipment and update_shipment return
\* the response body exactly as received, and delete_shipment returns None.
SuccessStatus == Answered /\ erp.status_code \in 200..299
C5_SuccessReturnedVerbatim ==
    SuccessStatus =>
        outcome = Return(IF call.op = "delete_shipment" THEN PyNone ELSE PyStr(erp.text))

C5_Witness ==
    /\ SuccessStatus /\ call.op = "update_shipment" /\ erp.text = BodyShipmentSpaced
    /\ outcome.kind = "return" /\ outcome.value.v = BodyShipmentSpaced

\* C6: get_shipments requests ERP + "Shipments?" followed by
\* "filter[where][status]=" + status when status is not None, and by nothing
\* when it is None.
C6_StatusFilterInUrl ==
    (Invoked /\ call.op = "get_shipments") =>
        /\ Len(requests) = 1
        /\ requests[1].method = "GET"
        /\ call.status.t = "NoneType" => requests[1].url = ERP \o "Shipments?"
        /\ call.status.t # "NoneType" =>
              requests[1].url = ERP \o "Shipments?" \o "filter[where][status]=" \o call.status.v
        /\ call.status = PyStr("delivered") =>
              requests[1].url = "http://erp.example/api/v1/Shipments?filter[where][status]=delivered"

C6_Witness ==
    /\ Invoked /\ call.op = "get_shipments" /\ call.status = PyStr("")
    /\ requests[1].url = "http://erp.example/api/v1/Shipments?filter[where][status]="

\* C7: every invocation issues exactly one HTTP request, on every path, so the
\* process has sent as many requests as it has made invocations.
C7_ExactlyOneRequest ==
    /\ Invoked => Len(requests) = 1
    /\ sent = calls

C7_Witness ==
    /\ calls >= 2 /\ sent = calls /\ erp.kind = "error" /\ Len(requests) = 1

C9_RetailerRestrictsRequest ==
    [][(/\ call.op = "get_shipments" /\ call'.op = "get_shipments"
        /\ call'.token = call.token /\ call'.status = call.status
        /\ call'.retailer_id.t = "str" /\ call'.retailer_id # call.retailer_id)
          => requests' # requests]_vars

\* C10: an invocation raises exactly when the request failed, or the status is
\* 401, or the status is 404 and the operation is not get_shipments; in every
\* other case it returns the body (None for delete_shipment) as for a 200.
ErrorCase ==
    \/ erp.kind = "error"
    \/ erp.kind = "response" /\ erp.status_code = 401
    \/ erp.kind = "response" /\ erp.status_code = 404 /\ ById
C10_RaisesExactlyOnErrorCases ==
    Invoked =>
        /\ outcome.kind = "raise" <=> ErrorCase
        /\ ~ErrorCase =>
              outcome = Return(IF call.op = "delete_shipment" THEN PyNone ELSE PyStr(erp.text))

C10_Witness ==
    /\ Invoked /\ call.op = "get_shipments" /\ erp.kind = "response"
    /\ erp.status_code = 404 /\ outcome = Return(PyStr(erp.text))

====
